---- MODULE Spec2Model ----
(***************************************************************************)
(* FinSight feature pipeline: download of historical news from the Alpaca  *)
(* news API (alpaca_news_api.py) driven by download_news_from_alpaca.py.   *)
(*                                                                         *)
(* The repository holds two copies of alpaca_news_api.py:                  *)
(*   "modules" : src/modules/feature_pipeline/src/alpaca_news_api.py       *)
(*   "src"     : src/src/alpaca_news_api.py (News declares `data`, the     *)
(*               fetcher wraps raise_for_status, other header/param names) *)
(* save_news_to_json and download_historical_news are textually the same   *)
(* in both; the variable impl selects the News class and the fetcher.      *)
(***************************************************************************)
EXTENDS Integers, Sequences, FiniteSets, TLC

VARIABLES
    impl,             \* which copy of alpaca_news_api.py is imported
    env,              \* os.environ: the set of variable names that are set
    pc,               \* position of the script / download_historical_news
    error,            \* the exception that ended the process, "none" if none
    from_date,        \* argument of download_historical_news
    to_date,          \* argument of download_historical_news
    requests,         \* every requests.get issued in this run, in order
    responses,        \* every HTTP outcome received in this run, in order
    list_of_news,     \* local variable list_of_news
    next_page_token,  \* local variable next_page_token
    files,            \* the file system under DATA_DIR: path -> file
    files0,           \* the file system as it was when the run was started
    writes,           \* number of times this run opened the output file
    result,           \* the path returned by download_historical_news
    rerun,            \* TRUE once the script has been started a second time
    prev              \* what the first run was given and what it produced

vars == <<impl, env, pc, error, from_date, to_date, requests, responses,
          list_of_news, next_page_token, files, files0, writes, result,
          rerun, prev>>

----------------------------------------------------------------------------
(* Bounds and program constants *)

\* most requests one run may issue in the model (the code has no such guard)
MaxPages == 3

\* "limit": 50
PageLimit == 50

\* response.status_code == 200
StatusOK == 200

\* Python's None (a JSON null, a missing key's default, an absent argument)
None == "None"

\* continuation tokens the server may hand out
Tokens == {"t1", "t2"}

----------------------------------------------------------------------------
(* datetime values and their formatting *)

DT(day, sec) == [day |-> day, sec |-> sec]

NoDate == DT(0, 0)

\* strftime("%Y-%m-%dT%H:%M:%SZ"): keeps the day and the time of day
FmtTimestamp(d) == <<d.day, d.sec, "Z">>

\* strftime("%Y-%m-%d"): keeps the day, drops the time of day
FmtDay(d) == d.day

\* the (from_date, to_date) pairs the script may be started with; the first
\* two differ in the time of day only, so they share one output path
Ranges ==
    { [from |-> DT(20, 0), to |-> DT(21, 0)],
      [from |-> DT(20, 1), to |-> DT(21, 0)],
      [from |-> DT(20, 0), to |-> DT(22, 0)] }

\* DATA_DIR / f'news_{from:%Y-%m-%d}_{to:%Y-%m-%d}.json'
PathToFile(f, t) == <<"DATA_DIR", "news", FmtDay(f), FmtDay(t)>>

Paths == { PathToFile(r.from, r.to) : r \in Ranges }

NoPath == <<>>

----------------------------------------------------------------------------
(* The environment and the module's import *)

EnvNames == {"ALPACA_API_KEY", "ALPACA_SECRET_KEY"}

\* (mutant) only the first variable is looked up
CredentialsLoadedKeyOnly(e) == "ALPACA_API_KEY" \in e

\* try: os.environ['ALPACA_API_KEY']; os.environ['ALPACA_SECRET_KEY']
CredentialsLoaded(e) == "ALPACA_API_KEY" \in e /\ "ALPACA_SECRET_KEY" \in e

----------------------------------------------------------------------------
(* The server: what one requests.get can come back with *)

itemA == [headline |-> "h1", summary |-> "s1", content |-> "c1",
          updated_at |-> "u1", timestamp |-> "2025-04-20T10:00:00"]

itemB == [headline |-> "h2", summary |-> "s2", content |-> "c2",
          updated_at |-> "u2", timestamp |-> "2025-04-20T11:00:00"]

\* an article object without its "content" field
itemBad == [headline |-> "h3", summary |-> "s3",
            updated_at |-> "u3", timestamp |-> "2025-04-20T12:00:00"]

\* the "news" arrays a page may carry
NewsArrays ==
    { <<>>, <<itemA>>, <<itemB>>, <<itemA, itemB>>, <<itemB, itemA>>,
      <<itemBad>>, <<itemA, itemBad>> }

HttpResponse(status, isJson, body) ==
    [net |-> TRUE, status |-> status, json |-> isJson, body |-> body]

ErrorBody == [message |-> "error"]

\* a 200 page: "next_page_token" missing, null, or a token
Pages ==
    { HttpResponse(StatusOK, TRUE, [news |-> n]) : n \in NewsArrays }
    \cup
    { HttpResponse(StatusOK, TRUE, [news |-> n, next_page_token |-> t]) :
          n \in NewsArrays, t \in Tokens \cup {None} }

Responses ==
    Pages
    \cup { [net |-> FALSE, status |-> 0, json |-> FALSE, body |-> ErrorBody] }
    \cup { HttpResponse(404, TRUE, ErrorBody),
           HttpResponse(204, FALSE, ErrorBody),
           HttpResponse(StatusOK, FALSE, ErrorBody),
           HttpResponse(StatusOK, TRUE, [next_page_token |-> "t1"]) }

----------------------------------------------------------------------------
(* fetch_batch_of_news *)

Headers(i) ==
    IF i = "modules"
    THEN {"Apca-Api-Key-Id", "Apca-Api-Secret-Key"}
    ELSE {"APCA_API_KEY_ID", "APCA_API_SECRET_KEY"}

Params(i, f, t, page_token) ==
    LET base == IF i = "modules"
                THEN [start |-> FmtTimestamp(f), end |-> FmtTimestamp(t),
                      limit |-> PageLimit, include_content |-> TRUE,
                      sort |-> "ASC"]
                ELSE [start |-> FmtTimestamp(f), end |-> FmtTimestamp(t),
                      limit |-> PageLimit, including_content |-> TRUE,
                      sort |-> "ASC"]
    IN  IF page_token # None
        THEN base @@ [page_token |-> page_token]
        ELSE base

Request(i, f, t, page_token) ==
    [headers |-> Headers(i), params |-> Params(i, f, t, page_token)]

\* the token a request carries, None when it carries none
TokenOf(req) ==
    IF "page_token" \in DOMAIN req.params THEN req.params.page_token ELSE None

\* news_json.get("next_page_token", None)
GetNextPageToken(body) ==
    IF "next_page_token" \in DOMAIN body THEN body.next_page_token ELSE None

Raise(kind) == [err |-> kind, news |-> <<>>, token |-> None]

Return(news, token) == [err |-> "none", news |-> news, token |-> token]

\* modules copy: News(headline=, date=n["updated_at"], summary=, content=)
NewsKeys == {"headline", "updated_at", "summary", "content"}

News(n) ==
    [cls |-> "News", headline |-> n.headline, date |-> n.updated_at,
     summary |-> n.summary, content |-> n.content]

\* (mutant) the else branch that raises on a non-200 status is missing
fetch_batch_no_else(r) ==
    IF ~r.net THEN Raise("ConnectionError")
    ELSE IF r.status = StatusOK
    THEN IF ~r.json THEN Raise("JSONDecodeError")
         ELSE IF "news" \notin DOMAIN r.body THEN Raise("KeyError")
         ELSE IF \E k \in 1..Len(r.body.news) :
                     ~(NewsKeys \subseteq DOMAIN r.body.news[k])
              THEN Raise("KeyError")
         ELSE Return([k \in 1..Len(r.body.news) |-> News(r.body.news[k])],
                     GetNextPageToken(r.body))
    ELSE Return(<<>>, None)

fetch_batch_of_news(r) ==
    IF ~r.net THEN Raise("ConnectionError")
    ELSE IF r.status = StatusOK
    THEN IF ~r.json THEN Raise("JSONDecodeError")
         ELSE IF "news" \notin DOMAIN r.body THEN Raise("KeyError")
         ELSE IF \E k \in 1..Len(r.body.news) :
                     ~(NewsKeys \subseteq DOMAIN r.body.news[k])
              THEN Raise("KeyError")
         ELSE Return([k \in 1..Len(r.body.news) |-> News(r.body.news[k])],
                     GetNextPageToken(r.body))
    ELSE Raise("RuntimeError")

\* src copy: News(headline=, summary=, content=, data=fromisoformat(item["timestamp"]))
DupNewsKeys == {"headline", "summary", "content", "timestamp"}

\* datetime.fromisoformat (every timestamp of the model is a valid ISO string)
FromIsoFormat(s) == [iso |-> s]

\* (mutant) the dataclass field is named date, as the loop and the save read it
DupNewsWithDate(item) ==
    [cls |-> "News", headline |-> item.headline, summary |-> item.summary,
     content |-> item.content, date |-> FromIsoFormat(item.timestamp)]

DupNews(item) ==
    [cls |-> "News", headline |-> item.headline, summary |-> item.summary,
     content |-> item.content, data |-> FromIsoFormat(item.timestamp)]

dup_fetch_batch_of_news(r) ==
    IF ~r.net \/ r.status >= 400 THEN Raise("RuntimeError")
    ELSE IF r.status = StatusOK
    THEN IF ~r.json THEN Raise("JSONDecodeError")
         ELSE IF "news" \notin DOMAIN r.body THEN Raise("KeyError")
         ELSE IF \E k \in 1..Len(r.body.news) :
                     ~(DupNewsKeys \subseteq DOMAIN r.body.news[k])
              THEN Raise("KeyError")
         ELSE Return([k \in 1..Len(r.body.news) |-> DupNews(r.body.news[k])],
                     GetNextPageToken(r.body))
    ELSE Return(<<>>, None)

FetchBatch(i, r) ==
    IF i = "modules" THEN fetch_batch_of_news(r) ELSE dup_fetch_batch_of_news(r)

----------------------------------------------------------------------------
(* save_news_to_json *)

\* attribute access on a dataclass instance
HasAttr(obj, name) == name \in DOMAIN obj

\* (mutant) the "content" entry is left out of the dict
ToDictNoContent(news) ==
    << <<"headline", news.headline>>, <<"date", news.date>>,
       <<"summary", news.summary>> >>

\* {"headline": news.headline, "date": news.date, "summary": ..., "content": ...}
ToDict(news) ==
    << <<"headline", news.headline>>, <<"date", news.date>>,
       <<"summary", news.summary>>, <<"content", news.content>> >>

\* the list comprehension fails on the first News without one of the attributes
ComprehensionFails(news_list) ==
    \E k \in 1..Len(news_list) :
        \E a \in {"headline", "date", "summary", "content"} :
            ~HasAttr(news_list[k], a)

NewsData(news_list) == [k \in 1..Len(news_list) |-> ToDict(news_list[k])]

\* the text of a file is a sequence of JSON tokens
Tok(t, o) == [t |-> t, o |-> o]

\* json.dump(news_data, f, indent=4)
JsonDump(news_data) ==
    <<Tok("[", <<>>)>>
    \o [k \in 1..Len(news_data) |-> Tok("obj", news_data[k])]
    \o <<Tok("]", <<>>)>>

NoFile == [exists |-> FALSE, text |-> <<>>]

\* (mutant) open(file_path, "a"): keeps what the file holds
OpenA(file) == [exists |-> TRUE, text |-> file.text]

\* open(file_path, "w"): creates the file or truncates it
OpenW(file) == [exists |-> TRUE, text |-> <<>>]

\* f.write at the end of the open file
WriteText(file, text) == [exists |-> TRUE, text |-> file.text \o text]

\* a file left by an earlier download
OldFile ==
    [exists |-> TRUE,
     text |-> JsonDump(<< << <<"headline", "h0">>, <<"date", "u0">>,
                             <<"summary", "s0">>, <<"content", "c0">> >> >>)]

----------------------------------------------------------------------------
(* download_historical_news *)

\* (mutant) while next_page_token is None
LoopContinuesInverted(token) == token = None

\* while next_page_token is not None
LoopContinues(token) == token # None

\* (mutant) list_of_news = batch_of_news + list_of_news
ExtendInFront(list, batch) == batch \o list

\* list_of_news += batch_of_news
Extend(list, batch) == list \o batch

\* batch_of_news[-1].date
LastDateError(batch) ==
    IF Len(batch) = 0 THEN "IndexError"
    ELSE IF ~HasAttr(batch[Len(batch)], "date") THEN "AttributeError"
    ELSE "none"

NoPrev ==
    [from |-> NoDate, to |-> NoDate, result |-> NoPath, text |-> <<>>,
     responses |-> <<>>]

\* a second run is given the responses of the first, one per request
Served(r) ==
    rerun => /\ Len(responses) < Len(prev.responses)
             /\ r = prev.responses[Len(responses) + 1]

Init ==
    /\ impl = "modules"
    /\ env \in SUBSET EnvNames
    /\ pc = "start"
    /\ error = "none"
    /\ from_date = NoDate
    /\ to_date = NoDate
    /\ requests = <<>>
    /\ responses = <<>>
    /\ list_of_news = <<>>
    /\ next_page_token = None
    /\ files \in { [p \in Paths |-> NoFile], [p \in Paths |-> OldFile] }
    /\ files0 = files
    /\ writes = 0
    /\ result = NoPath
    /\ rerun = FALSE
    /\ prev = NoPrev

InitDup ==
    /\ impl = "src"
    /\ env \in SUBSET EnvNames
    /\ pc = "start"
    /\ error = "none"
    /\ from_date = NoDate
    /\ to_date = NoDate
    /\ requests = <<>>
    /\ responses = <<>>
    /\ list_of_news = <<>>
    /\ next_page_token = None
    /\ files \in { [p \in Paths |-> NoFile], [p \in Paths |-> OldFile] }
    /\ files0 = files
    /\ writes = 0
    /\ result = NoPath
    /\ rerun = FALSE
    /\ prev = NoPrev

\* from src.alpaca_news_api import download_historical_news
LoadModule ==
    /\ pc = "start"
    /\ IF CredentialsLoaded(env)
       THEN pc' = "loaded" /\ error' = error
       ELSE pc' = "import_error" /\ error' = "KeyError"
    /\ UNCHANGED <<impl, env, from_date, to_date, requests, responses,
                   list_of_news, next_page_token, files, files0, writes,
                   result, rerun, prev>>

\* download_historical_news(from_date=..., to_date=...)
Call ==
    /\ pc = "loaded"
    /\ \E r \in Ranges : from_date' = r.from /\ to_date' = r.to
    /\ pc' = "call"
    /\ files0' = files
    /\ UNCHANGED <<impl, env, error, requests, responses, list_of_news,
                   next_page_token, files, writes, result, rerun, prev>>

\* fetch_batch_of_news(from_date, to_date): requests.get without page_token
SendFirst ==
    /\ pc = "call"
    /\ Len(requests) < MaxPages
    /\ requests' = Append(requests, Request(impl, from_date, to_date, None))
    /\ pc' = "await_first"
    /\ UNCHANGED <<impl, env, error, from_date, to_date, responses,
                   list_of_news, next_page_token, files, files0, writes,
                   result, rerun, prev>>

\* list_of_news, next_page_token = fetch_batch_of_news(...), then the while test
ReceiveFirst ==
    /\ pc = "await_first"
    /\ \E r \in Responses :
         /\ Served(r)
         /\ responses' = Append(responses, r)
         /\ LET res == FetchBatch(impl, r) IN
              IF res.err # "none"
              THEN /\ pc' = "raised"
                   /\ error' = res.err
                   /\ UNCHANGED <<list_of_news, next_page_token>>
              ELSE /\ list_of_news' = res.news
                   /\ next_page_token' = res.token
                   /\ error' = error
                   /\ pc' = IF LoopContinues(res.token) THEN "loop" ELSE "save"
    /\ UNCHANGED <<impl, env, from_date, to_date, requests, files, files0,
                   writes, result, rerun, prev>>

\* fetch_batch_of_news(from_date, to_date, next_page_token): requests.get
SendNext ==
    /\ pc = "loop"
    /\ Len(requests) < MaxPages
    /\ requests' = Append(requests,
                          Request(impl, from_date, to_date, next_page_token))
    /\ pc' = "await_next"
    /\ UNCHANGED <<impl, env, error, from_date, to_date, responses,
                   list_of_news, next_page_token, files, files0, writes,
                   result, rerun, prev>>

\* the rest of the loop body, then the while test
ReceiveNext ==
    /\ pc = "await_next"
    /\ \E r \in Responses :
         /\ Served(r)
         /\ responses' = Append(responses, r)
         /\ LET res == FetchBatch(impl, r) IN
              IF res.err # "none"
              THEN /\ pc' = "raised"
                   /\ error' = res.err
                   /\ UNCHANGED <<list_of_news, next_page_token>>
              ELSE /\ list_of_news' = Extend(list_of_news, res.news)
                   /\ next_page_token' = res.token
                   /\ error' = LastDateError(res.news)
                   /\ pc' = IF LastDateError(res.news) # "none" THEN "raised"
                            ELSE IF LoopContinues(res.token) THEN "loop"
                            ELSE "save"
    /\ UNCHANGED <<impl, env, from_date, to_date, requests, files, files0,
                   writes, result, rerun, prev>>

\* save_news_to_json: the list comprehension, then open(file_path, "w")
OpenFile ==
    /\ pc = "save"
    /\ IF ComprehensionFails(list_of_news)
       THEN /\ pc' = "raised"
            /\ error' = "AttributeError"
            /\ UNCHANGED <<files, writes>>
       ELSE \E opened \in BOOLEAN :
              IF opened
              THEN /\ files' = [files EXCEPT
                                  ![PathToFile(from_date, to_date)] = OpenW(@)]
                   /\ writes' = writes + 1
                   /\ pc' = "dump"
                   /\ error' = error
              ELSE /\ pc' = "raised"
                   /\ error' = "OSError"
                   /\ UNCHANGED <<files, writes>>
    /\ UNCHANGED <<impl, env, from_date, to_date, requests, responses,
                   list_of_news, next_page_token, files0, result, rerun, prev>>

\* json.dump(news_data, f, indent=4) and the end of the with block
Dump ==
    /\ pc = "dump"
    /\ files' = [files EXCEPT ![PathToFile(from_date, to_date)] =
                    WriteText(@, JsonDump(NewsData(list_of_news)))]
    /\ pc' = "saved"
    /\ UNCHANGED <<impl, env, error, from_date, to_date, requests, responses,
                   list_of_news, next_page_token, files0, writes, result,
                   rerun, prev>>

\* return path_to_file
ReturnPath ==
    /\ pc = "saved"
    /\ result' = PathToFile(from_date, to_date)
    /\ pc' = "returned"
    /\ UNCHANGED <<impl, env, error, from_date, to_date, requests, responses,
                   list_of_news, next_page_token, files, files0, writes,
                   rerun, prev>>

\* the script is started again after a completed download, against a server
\* that answers as it did the first time
Rerun ==
    /\ pc = "returned"
    /\ ~rerun
    /\ rerun' = TRUE
    /\ prev' = [from |-> from_date, to |-> to_date, result |-> result,
                text |-> files[result].text, responses |-> responses]
    /\ \E r \in Ranges : from_date' = r.from /\ to_date' = r.to
    /\ pc' = "call"
    /\ files0' = files
    /\ requests' = <<>>
    /\ responses' = <<>>
    /\ list_of_news' = <<>>
    /\ next_page_token' = None
    /\ writes' = 0
    /\ result' = NoPath
    /\ UNCHANGED <<impl, env, error, files>>

Next ==
    \/ LoadModule
    \/ Call
    \/ SendFirst
    \/ ReceiveFirst
    \/ SendNext
    \/ ReceiveNext
    \/ OpenFile
    \/ Dump
    \/ ReturnPath

NextTwice ==
    \/ Next
    \/ Rerun

Spec == Init /\ [][Next]_vars

SpecDup == InitDup /\ [][Next]_vars

SpecTwice == Init /\ [][NextTwice]_vars

----------------------------------------------------------------------------
(* Vocabulary of the properties *)

Last(seq) == seq[Len(seq)]

\* the process is past the pagination loop and in (or past) the save step
SavePcs == {"save", "dump", "saved", "returned"}

FourKeys == {"headline", "date", "summary", "content"}

\* a well-formed HTTP 200 page: a JSON object with a "news" array whose
\* objects carry the four fields the modules copy reads
WellFormedPage(r) ==
    /\ r.net
    /\ r.status = 200
    /\ r.json
    /\ "news" \in DOMAIN r.body
    /\ \A k \in 1..Len(r.body.news) :
         {"headline", "updated_at", "summary", "content"}
             \subseteq DOMAIN r.body.news[k]

\* the continuation token a page carries
PageToken(r) ==
    IF "next_page_token" \in DOMAIN r.body THEN r.body.next_page_token
    ELSE None

\* the records of a well-formed page, field for field
PageRecords(r) ==
    [k \in 1..Len(r.body.news) |->
        [cls |-> "News", headline |-> r.body.news[k].headline,
         date |-> r.body.news[k].updated_at,
         summary |-> r.body.news[k].summary,
         content |-> r.body.news[k].content]]

RECURSIVE ConcatPages(_)
ConcatPages(k) ==
    IF k = 0 THEN <<>> ELSE ConcatPages(k - 1) \o PageRecords(responses[k])

RECURSIVE TotalCount(_)
TotalCount(k) ==
    IF k = 0 THEN 0 ELSE TotalCount(k - 1) + Len(responses[k].body.news)

\* json.load of a file's text: an array of objects, or not valid JSON
JsonLoad(text) ==
    IF /\ Len(text) >= 2
       /\ text[1].t = "["
       /\ Last(text).t = "]"
       /\ \A k \in 2..(Len(text) - 1) : text[k].t = "obj"
    THEN [ok |-> TRUE, array |-> [k \in 1..(Len(text) - 2) |-> text[k + 1].o]]
    ELSE [ok |-> FALSE, array |-> <<>>]

ObjKeys(obj) == { obj[k][1] : k \in 1..Len(obj) }

ObjGet(obj, key) ==
    LET k == CHOOSE j \in 1..Len(obj) : obj[j][1] = key IN obj[k][2]

\* the text json.dump produces for a list of page records
ExpectedText(records) ==
    <<Tok("[", <<>>)>>
    \o [k \in 1..Len(records) |->
          Tok("obj", << <<"headline", records[k].headline>>,
                        <<"date", records[k].date>>,
                        <<"summary", records[k].summary>>,
                        <<"content", records[k].content>> >>)]
    \o <<Tok("]", <<>>)>>

----------------------------------------------------------------------------
(* C1 *)

\* a response on which fetch_batch_of_news fails: a transport error, a
\* non-200 status, a body that is no JSON, or a missing expected field
FailingResponse(r) == ~WellFormedPage(r)

\* C1: when a call to fetch_batch_of_news fails, on the first page or on a
\* later one, the download has aborted at that call: the error is the one
\* the process ended with, no request follows the failed one, no path is
\* returned, and the file system is as it was when the download started.
C1_FetchFailureAborts ==
    (responses # <<>> /\ FailingResponse(Last(responses))) =>
        /\ pc = "raised"
        /\ error \in {"ConnectionError", "RuntimeError", "JSONDecodeError",
                      "KeyError"}
        /\ Len(requests) = Len(responses)
        /\ writes = 0
        /\ result = NoPath
        /\ files = files0

C1_Witness ==
    /\ pc = "raised"
    /\ Len(responses) = 3
    /\ FailingResponse(responses[3])
    /\ Last(responses).net
    /\ Last(responses).status = 404
    /\ list_of_news # <<>>
    /\ \A p \in Paths : files0[p] = OldFile

----------------------------------------------------------------------------
(* C2 *)

\* C2: when the save step is reached, list_of_news is the concatenation of
\* the record lists of all pages visited, in the order visited, and its
\* length is the sum of the pages' record counts.
C2_AccumulatedIsConcatenation ==
    pc \in SavePcs =>
        /\ list_of_news = ConcatPages(Len(responses))
        /\ Len(list_of_news) = TotalCount(Len(responses))

C2_Witness ==
    /\ pc = "save"
    /\ Len(responses) = 3
    /\ Len(responses[1].body.news) = 2
    /\ Len(responses[2].body.news) = 1
    /\ responses[1].body.news # responses[3].body.news

----------------------------------------------------------------------------
(* C3 *)

\* the run is no longer in the pagination loop
LoopStopped == pc \in SavePcs \cup {"raised"}

\* C3: while every response is a well-formed 200 page, the loop has stopped
\* exactly when the last response carries no continuation token, and every
\* earlier response carried one.
C3_StopsIffNoToken ==
    (responses # <<>> /\ \A k \in 1..Len(responses) : WellFormedPage(responses[k]))
    =>
        /\ Len(requests) = Len(responses) =>
             (LoopStopped <=> PageToken(Last(responses)) = None)
        /\ \A k \in 1..(Len(responses) - 1) : PageToken(responses[k]) # None

----------------------------------------------------------------------------
(* C4 *)

\* C4: the output file is opened for writing at most once in a run, exactly
\* once when the run returns a path; nothing is written without that open;
\* the open happens only after a well-formed response without continuation
\* token, and no request is issued once it has happened.
C4_SingleWriteAfterLastPage ==
    /\ writes <= 1
    /\ (pc = "returned" =>
          writes = 1 /\ result = PathToFile(from_date, to_date))
    /\ (writes = 0 => files = files0)
    /\ (writes >= 1 =>
          /\ pc \in {"dump", "saved", "returned"}
          /\ responses # <<>>
          /\ WellFormedPage(Last(responses))
          /\ PageToken(Last(responses)) = None
          /\ Len(requests) = Len(responses)
          /\ \A p \in Paths \ {PathToFile(from_date, to_date)} :
                files[p] = files0[p])

C4_Witness ==
    /\ pc = "returned"
    /\ writes = 1
    /\ Len(requests) = 3
    /\ files # files0

----------------------------------------------------------------------------
(* C5 *)

\* C5: after download_historical_news has returned, the output file parses
\* as a JSON array with one object per accumulated record, in accumulation
\* order; the array is as long as the pages' record counts together, and
\* each object has exactly the keys headline, date, summary and content,
\* with the values of the corresponding record.
C5_FileIsArrayOfRecords ==
    pc = "returned" =>
        LET f == files[result]
            parsed == JsonLoad(f.text)
        IN  /\ f.exists
            /\ parsed.ok
            /\ Len(parsed.array) = Len(list_of_news)
            /\ Len(parsed.array) = TotalCount(Len(responses))
            /\ \A k \in 1..Len(parsed.array) :
                 /\ Len(parsed.array[k]) = 4
                 /\ ObjKeys(parsed.array[k]) = FourKeys
                 /\ \A a \in FourKeys :
                      ObjGet(parsed.array[k], a) = list_of_news[k][a]

C5_Witness ==
    /\ pc = "returned"
    /\ Len(list_of_news) = 4
    /\ list_of_news[1] # list_of_news[2]
    /\ files0[result].exists

----------------------------------------------------------------------------
(* C6 *)

\* C6: a second run with the same (from_date, to_date), served the same
\* pages, returns the same path and leaves the same file contents as the
\* first; the contents are those of the pages served, whatever the file held.
C6_SecondRunSameFile ==
    (rerun /\ pc = "returned"
           /\ from_date = prev.from /\ to_date = prev.to
           /\ responses = prev.responses)
    =>
        /\ result = prev.result
        /\ files[result].exists
        /\ files[result].text = prev.text
        /\ files[result].text = ExpectedText(ConcatPages(Len(responses)))

C6_Witness ==
    /\ rerun
    /\ pc = "returned"
    /\ from_date = prev.from
    /\ to_date = prev.to
    /\ responses = prev.responses
    /\ Len(responses) = 2
    /\ Len(list_of_news) = 3

----------------------------------------------------------------------------
(* C7 *)

\* C7: with ALPACA_API_KEY or ALPACA_SECRET_KEY absent from the environment
\* the import fails with KeyError: the process never gets past it, no
\* request is issued and no file is written.
C7_MissingCredentialFailsImport ==
    (\E n \in {"ALPACA_API_KEY", "ALPACA_SECRET_KEY"} : n \notin env) =>
        /\ pc \in {"start", "import_error"}
        /\ (pc = "import_error" => error = "KeyError")
        /\ requests = <<>>
        /\ responses = <<>>
        /\ writes = 0
        /\ result = NoPath
        /\ files = files0

C7_Witness ==
    /\ pc = "import_error"
    /\ env = {"ALPACA_API_KEY"}
    /\ error = "KeyError"

----------------------------------------------------------------------------
(* C8 *)

\* C8: when the last page received is a well-formed page with zero records
\* and no continuation token, first page or later, the loop is over and the
\* download goes on to save what was accumulated (it fails only if the
\* output file cannot be opened).
C8_EmptyLastPageCompletes ==
    (/\ responses # <<>>
     /\ Len(requests) = Len(responses)
     /\ \A k \in 1..Len(responses) : WellFormedPage(responses[k])
     /\ Last(responses).body.news = <<>>
     /\ PageToken(Last(responses)) = None)
    =>
        /\ pc \in SavePcs \/ (pc = "raised" /\ error = "OSError")
        /\ list_of_news = ConcatPages(Len(responses))

----------------------------------------------------------------------------
(* C9 *)

\* C9: every request of a run carries the run's (from_date, to_date); the
\* first carries no page_token, every later one the token of the response
\* just before it; and after a page that was fetched a further request is
\* issued (the run is in the loop) exactly when that page's token is not null.
C9_TokenChain ==
    /\ \A k \in 1..Len(requests) :
         /\ requests[k].params.start = FmtTimestamp(from_date)
         /\ requests[k].params.end = FmtTimestamp(to_date)
    /\ (requests # <<>> => TokenOf(requests[1]) = None)
    /\ \A k \in 2..Len(requests) :
         /\ PageToken(responses[k - 1]) # None
         /\ TokenOf(requests[k]) = PageToken(responses[k - 1])
    /\ (/\ responses # <<>>
        /\ Len(requests) = Len(responses)
        /\ WellFormedPage(Last(responses)))
       => (pc = "loop" <=> PageToken(Last(responses)) # None)

----------------------------------------------------------------------------
(* C10 *)

\* a first response from which the src copy's fetcher yields zero records
\* and no continuation token
YieldsNothing(r) ==
    /\ r.net
    /\ \/ r.status # 200 /\ r.status < 400
       \/ /\ r.status = 200
          /\ r.json
          /\ "news" \in DOMAIN r.body
          /\ r.body.news = <<>>
          /\ PageToken(r) = None

\* C10: in the src copy a path is returned only after a single response that
\* yields zero records and no token; once a record was fetched or a second
\* page was requested the file is never opened; and whatever the run has
\* written to the output file is the empty array.
C10_DupWritesOnlyEmptyArray ==
    /\ (pc = "returned" \/ result # NoPath) =>
          /\ Len(requests) = 1
          /\ Len(responses) = 1
          /\ YieldsNothing(responses[1])
          /\ files[result] = [exists |-> TRUE, text |-> ExpectedText(<<>>)]
    /\ (list_of_news # <<>> \/ Len(requests) >= 2) =>
          /\ writes = 0
          /\ pc \notin {"dump", "saved", "returned"}
          /\ files = files0
    /\ \A p \in Paths :
          \/ files[p] = files0[p]
          \/ files[p] = [exists |-> TRUE, text |-> <<>>]
          \/ files[p] = [exists |-> TRUE, text |-> ExpectedText(<<>>)]

C10_Witness ==
    /\ impl = "src"
    /\ pc = "returned"
    /\ files0[result] = OldFile
    /\ files[result] = [exists |-> TRUE, text |-> ExpectedText(<<>>)]

====
